---------------------------- MODULE Spec2Model ----------------------------
(***************************************************************************)
(* Model of shipit_dashboard/serializers.py: serialize_user, serialize_bug *)
(* and serialize_analysis.                                                 *)
(*                                                                         *)
(* Representation of Python values:                                        *)
(*   str   a TLA+ string (ASCII: the printable characters and \t \n \r \f) *)
(*   int   a TLA+ integer                                                  *)
(*   dict  a function whose domain is a set of strings (a record);         *)
(*         the empty dict is <<>>                                          *)
(*   list  a sequence                                                      *)
(*   None  the value None defined below                                    *)
(*   a raised exception: the value Raise(type, argument)                   *)
(* A function that mutates its argument is modelled by two operators: the  *)
(* value it returns (or the exception it raises) and the argument as the   *)
(* call leaves it.                                                         *)
(***************************************************************************)
EXTENDS Integers, Sequences, FiniteSets, TLC

VARIABLES
    userObj,      \* a user value: a dict or a bare string
    bugObj,       \* a Bug entity: id, bugzilla_id, payload, payload_data
    analysisObj,  \* an Analysis entity: id, name, parameters, bugs
    last,         \* the last call: its function, arguments and outcome
    called        \* the bugs the last call passed to serialize_bug

vars == <<userObj, bugObj, analysisObj, last, called>>

---------------------------------------------------------------------------
(* Python values *)

None == [py |-> "None"]

\* The exception object a raise statement (or a failed subscript) throws.
Raise(type, arg) == [raised |-> type, arg |-> arg]

Kind(v) == SubSeq(ToString(v), 1, 1)

\* isinstance(v, str)
IsStr(v) == Kind(v) = "\""

IsNone(v) == Kind(v) = "[" /\ v = None

\* isinstance(v, dict): a record other than None, or the empty function
IsDict(v) == (Kind(v) = "[" /\ v # None) \/ ToString(v) = "<<>>"

\* Whether a call ended by raising: v is the exception, not a return value.
IsRaise(v) == Kind(v) = "[" /\ "raised" \in DOMAIN v

\* bool(v), as `not v`, `a and b` and `if v` take it
Truthy(v) ==
    CASE IsStr(v) -> v # ""
      [] Kind(v) = "[" -> v # None
      [] Kind(v) = "<" -> Len(v) > 0
      [] Kind(v) = "T" -> TRUE
      [] Kind(v) = "F" -> FALSE
      [] OTHER -> v # 0

\* d.get(k), d.get(k, default)
get(d, k, default) == IF k \in DOMAIN d THEN d[k] ELSE default

\* d[k] = v
SetItem(d, k, v) == [x \in DOMAIN d \cup {k} |-> IF x = k THEN v ELSE d[x]]

---------------------------------------------------------------------------
(* str methods *)

Char(s, i) == SubSeq(s, i, i)

Whitespace == {" ", "\t", "\n", "\r", "\f"}

Upper == "ABCDEFGHIJKLMNOPQRSTUVWXYZ"
Lower == "abcdefghijklmnopqrstuvwxyz"

IndexIn(alphabet, c) ==
    IF \E i \in 1..Len(alphabet) : Char(alphabet, i) = c
    THEN CHOOSE i \in 1..Len(alphabet) : Char(alphabet, i) = c
    ELSE 0

\* s.strip(): without the leading and the trailing whitespace
strip(s) ==
    LET keep == {i \in 1..Len(s) : Char(s, i) \notin Whitespace}
    IN  IF keep = {} THEN ""
        ELSE SubSeq(s, CHOOSE i \in keep : \A j \in keep : i <= j,
                       CHOOSE i \in keep : \A j \in keep : i >= j)

LowerChar(c) ==
    LET i == IndexIn(Upper, c) IN IF i = 0 THEN c ELSE Char(Lower, i)

\* s.lower(), character by character (the halves are lowered apart only
\* to keep the recursion shallow)
RECURSIVE lower(_)
lower(s) ==
    IF Len(s) <= 1 THEN LowerChar(s)
    ELSE LET h == Len(s) \div 2
         IN  lower(SubSeq(s, 1, h)) \o lower(SubSeq(s, h + 1, Len(s)))

\* s.startswith(prefix)
startswith(s, prefix) ==
    Len(s) >= Len(prefix) /\ SubSeq(s, 1, Len(prefix)) = prefix

\* s.find(sub) + 1: the place of the leftmost occurrence, 0 when none
find(s, old) ==
    LET at == {i \in 1..(Len(s) - Len(old) + 1) :
                  SubSeq(s, i, i + Len(old) - 1) = old}
    IN  IF at = {} THEN 0 ELSE CHOOSE i \in at : \A j \in at : i <= j

\* s.replace(old, new, count) for a non-empty old: the first count
\* occurrences, left to right, without overlap; count < 0 replaces all.
RECURSIVE replace(_, _, _, _)
replace(s, old, new, count) ==
    LET p == find(s, old)
    IN  IF count = 0 \/ p = 0 THEN s
        ELSE SubSeq(s, 1, p - 1) \o new
             \o replace(SubSeq(s, p + Len(old), Len(s)), old, new,
                        IF count < 0 THEN count ELSE count - 1)

\* str(n) for an int
str(n) == ToString(n)

---------------------------------------------------------------------------
(* hashlib.md5(...).hexdigest(), RFC 1321.  A 32-bit word is a pair       *)
(* <<high 16 bits, low 16 bits>>.                                         *)

\* The characters 32..95 and 97..126 (a string literal cannot hold 96).
PrintableLow ==
    " !\"#$%&'()*+,-./0123456789:;<=>?@ABCDEFGHIJKLMNOPQRSTUVWXYZ[\\]^_"
PrintableHigh == "abcdefghijklmnopqrstuvwxyz{|}~"

\* ord(c): the byte s.encode('utf-8') gives for an ASCII character
Ord(c) ==
    CASE c = "\t" -> 9
      [] c = "\n" -> 10
      [] c = "\f" -> 12
      [] c = "\r" -> 13
      [] IndexIn(PrintableLow, c) > 0 -> 31 + IndexIn(PrintableLow, c)
      [] OTHER -> 96 + IndexIn(PrintableHigh, c)

encode(s) == [i \in 1..Len(s) |-> Ord(Char(s, i))]

Pow2Table == [i \in 0..16 |-> 2^i]
Pow2(n) == Pow2Table[n]

Bit(a, i) == (a \div Pow2(i)) % 2

\* a & b, a | b and a ^ b of two 4-bit numbers, tabulated
And4 ==
    [a \in 0..15 |-> [b \in 0..15 |->
        (Bit(a, 0) * Bit(b, 0)) + (2 * Bit(a, 1) * Bit(b, 1))
        + (4 * Bit(a, 2) * Bit(b, 2)) + (8 * Bit(a, 3) * Bit(b, 3))]]
Or4 == [a \in 0..15 |-> [b \in 0..15 |-> (a + b) - And4[a][b]]]
Xor4 == [a \in 0..15 |-> [b \in 0..15 |-> (a + b) - (2 * And4[a][b])]]

\* The auxiliary functions F, G, H and I of the four rounds (0..3), on
\* 4-bit numbers, tabulated; ~x is 15 - x.
MD5Aux ==
    [r \in 0..3 |-> [b \in 0..15 |-> [c \in 0..15 |-> [d \in 0..15 |->
        CASE r = 0 -> Or4[And4[b][c]][And4[15 - b][d]]
          [] r = 1 -> Or4[And4[b][d]][And4[c][15 - d]]
          [] r = 2 -> Xor4[b][Xor4[c][d]]
          [] OTHER -> Xor4[c][Or4[b][15 - d]]]]]]

\* A 4-bit table applied to the four 4-bit digits of 16-bit b, c and d.
Bitwise16(table, b, c, d) ==
    table[b % 16][c % 16][d % 16]
    + (16 * table[(b \div 16) % 16][(c \div 16) % 16][(d \div 16) % 16])
    + (256 * table[(b \div 256) % 16][(c \div 256) % 16][(d \div 256) % 16])
    + (4096 * table[b \div 4096][c \div 4096][d \div 4096])

\* The auxiliary function of round r on the words B, C and D.
MD5AuxWord(r, B, C, D) ==
    <<Bitwise16(MD5Aux[r], B[1], C[1], D[1]),
      Bitwise16(MD5Aux[r], B[2], C[2], D[2])>>

\* addition modulo 2^32
WAdd(x, y) ==
    <<(x[1] + y[1] + ((x[2] + y[2]) \div 65536)) % 65536,
      (x[2] + y[2]) % 65536>>

\* rotate left by 0 < n < 32 bits
RotL(x, n) ==
    LET y == IF n >= 16 THEN <<x[2], x[1]>> ELSE x
        k == n % 16
    IN  <<((y[1] * Pow2(k)) % 65536) + (y[2] \div Pow2(16 - k)),
          ((y[2] * Pow2(k)) % 65536) + (y[1] \div Pow2(16 - k))>>

MD5Shift ==
    <<7, 12, 17, 22, 7, 12, 17, 22, 7, 12, 17, 22, 7, 12, 17, 22,
      5, 9, 14, 20, 5, 9, 14, 20, 5, 9, 14, 20, 5, 9, 14, 20,
      4, 11, 16, 23, 4, 11, 16, 23, 4, 11, 16, 23, 4, 11, 16, 23,
      6, 10, 15, 21, 6, 10, 15, 21, 6, 10, 15, 21, 6, 10, 15, 21>>

\* floor(2^32 * abs(sin(i))) for i = 1..64
MD5Sine ==
    <<<<55146, 42104>>, <<59591, 46934>>, <<9248, 28891>>, <<49597, 52974>>,
      <<62844, 4015>>, <<18311, 50730>>, <<43056, 17939>>, <<64838, 38145>>,
      <<27008, 39128>>, <<35652, 63407>>, <<65535, 23473>>, <<35164, 55230>>,
      <<27536, 4386>>, <<64920, 29075>>, <<42617, 17294>>, <<18868, 2081>>,
      <<63006, 9570>>, <<49216, 45888>>, <<9822, 23121>>, <<59830, 51114>>,
      <<54831, 4189>>, <<580, 5203>>, <<55457, 59009>>, <<59347, 64456>>,
      <<8673, 52710>>, <<49975, 2006>>, <<62677, 3463>>, <<17754, 5357>>,
      <<43491, 59653>>, <<64751, 41976>>, <<26479, 729>>, <<36138, 19594>>,
      <<65530, 14658>>, <<34673, 63105>>, <<28061, 24866>>, <<64997, 14348>>,
      <<42174, 59972>>, <<19422, 53161>>, <<63163, 19296>>, <<48831, 48240>>,
      <<10395, 32454>>, <<60065, 10234>>, <<54511, 12421>>, <<1160, 7429>>,
      <<55764, 53305>>, <<59099, 39397>>, <<8098, 31992>>, <<50348, 22117>>,
      <<62505, 8772>>, <<17194, 65431>>, <<43924, 9127>>, <<64659, 41017>>,
      <<25947, 22979>>, <<36620, 52370>>, <<65519, 62589>>, <<34180, 24017>>,
      <<28584, 32335>>, <<65068, 59104>>, <<41729, 17172>>, <<19976, 4513>>,
      <<63315, 32386>>, <<48442, 62005>>, <<10967, 53947>>, <<60294, 54161>>>>

MD5Init ==
    <<<<26437, 8961>>, <<61389, 43913>>, <<39098, 56574>>, <<4146, 21622>>>>

\* The message, a 0x80 byte, zeros up to 56 modulo 64, and the length in
\* bits as 8 little-endian bytes.
MD5Pad(bytes) ==
    bytes \o <<128>> \o [i \in 1..((119 - (Len(bytes) % 64)) % 64) |-> 0]
    \o <<(8 * Len(bytes)) % 256, ((8 * Len(bytes)) \div 256) % 256,
         ((8 * Len(bytes)) \div 65536) % 256,
         ((8 * Len(bytes)) \div 16777216) % 256, 0, 0, 0, 0>>

\* Little-endian word j (0..15) of the 64-byte block that starts after
\* offset off.
MD5Word(msg, off, j) ==
    <<(msg[off + (4 * j) + 4] * 256) + msg[off + (4 * j) + 3],
      (msg[off + (4 * j) + 2] * 256) + msg[off + (4 * j) + 1]>>

\* The index of the message word operation i uses.
MD5WordIndex(i) ==
    CASE i < 16 -> i
      [] i < 32 -> ((5 * i) + 1) % 16
      [] i < 48 -> ((3 * i) + 5) % 16
      [] OTHER -> (7 * i) % 16

\* One of the 64 operations on the state <<A, B, C, D>>.
MD5Step(st, msg, off, i) ==
    <<st[4],
      WAdd(st[2],
           RotL(WAdd(WAdd(MD5AuxWord(i \div 16, st[2], st[3], st[4]), st[1]),
                     WAdd(MD5Sine[i + 1],
                          MD5Word(msg, off, MD5WordIndex(i)))),
                MD5Shift[i + 1])),
      st[2],
      st[3]>>

\* The value of e, with v computed first: keeps the evaluation of a long
\* chain of steps from nesting.
Strict(v, e) == IF v = v THEN e ELSE e

\* Operations lo .. hi-1 of the 64, in order (split in halves only to keep
\* the recursion shallow).
RECURSIVE MD5Rounds(_, _, _, _, _)
MD5Rounds(st, msg, off, lo, hi) ==
    Strict(st,
        IF hi = lo + 1 THEN MD5Step(st, msg, off, lo)
        ELSE MD5Rounds(MD5Rounds(st, msg, off, lo, (lo + hi) \div 2),
                       msg, off, (lo + hi) \div 2, hi))

MD5AddState(st, r) ==
    <<WAdd(st[1], r[1]), WAdd(st[2], r[2]),
      WAdd(st[3], r[3]), WAdd(st[4], r[4])>>

RECURSIVE MD5Blocks(_, _, _)
MD5Blocks(st, msg, off) ==
    Strict(st,
        IF off >= Len(msg) THEN st
        ELSE MD5Blocks(MD5AddState(st, MD5Rounds(st, msg, off, 0, 64)),
                       msg, off + 64))

HexDigits == "0123456789abcdef"

HexByte(b) ==
    Char(HexDigits, (b \div 16) + 1) \o Char(HexDigits, (b % 16) + 1)

\* The 4 bytes of a word, least significant first, in hexadecimal.
HexWord(w) ==
    HexByte(w[2] % 256) \o HexByte(w[2] \div 256)
    \o HexByte(w[1] % 256) \o HexByte(w[1] \div 256)

HexState(st) ==
    HexWord(st[1]) \o HexWord(st[2]) \o HexWord(st[3]) \o HexWord(st[4])

\* hashlib.md5(bytes).hexdigest()
md5_hexdigest(bytes) == HexState(MD5Blocks(MD5Init, MD5Pad(bytes), 0))

---------------------------------------------------------------------------
(* serialize_user *)

\* Variant: the hash of the email as given, neither trimmed nor lowered.
add_gravatar_raw(out) ==
    SetItem(out, "avatar",
            "https://www.gravatar.com/avatar/"
            \o md5_hexdigest(encode(out["email"])))

\* "Add gravatar": out with its avatar set.
add_gravatar(out) ==
    SetItem(out, "avatar",
            "https://www.gravatar.com/avatar/"
            \o md5_hexdigest(encode(lower(strip(out["email"])))))

\* Variant: the email of a dict without one falls back to real_name
\* before name.
serialize_user_real_name(user) ==
    IF IsDict(user) /\ "email" \notin DOMAIN user /\ "name" \notin DOMAIN user
    THEN Raise("KeyError", "name")
    ELSE add_gravatar(IF ~IsDict(user)
                      THEN [email |-> user, real_name |-> user]
                      ELSE IF "email" \notin DOMAIN user
                      THEN SetItem(user, "email",
                                   get(user, "real_name", user["name"]))
                      ELSE user)

\* Variant: the email is stored trimmed and lowered.
serialize_user_clean_email(user) ==
    IF IsDict(user) /\ "email" \notin DOMAIN user /\ "name" \notin DOMAIN user
    THEN Raise("KeyError", "name")
    ELSE add_gravatar(IF ~IsDict(user)
                      THEN [email |-> user, real_name |-> user]
                      ELSE SetItem(user, "email",
                               lower(strip(get(user, "email",
                                               get(user, "name", ""))))))

\* What serialize_user(user) returns, or the KeyError it raises.
serialize_user(user) ==
    IF IsDict(user) /\ "email" \notin DOMAIN user /\ "name" \notin DOMAIN user
    THEN Raise("KeyError", "name")
    ELSE add_gravatar(IF ~IsDict(user)
                      THEN [email |-> user, real_name |-> user]
                      ELSE IF "email" \notin DOMAIN user
                      THEN SetItem(user, "email", user["name"])
                      ELSE user)

\* user as a call serialize_user(user) with outcome r leaves it: out is the
\* argument itself when it is a dict, and the KeyError comes before any
\* assignment.
after_serialize_user(user, r) ==
    IF IsDict(user) /\ ~IsRaise(r) THEN r ELSE user

\* user as serialize_user(user) leaves it.
serialize_user_arg(user) == after_serialize_user(user, serialize_user(user))

\* [serialize_user(r) for r in users] from user i on: acc.ret is the list
\* so far (in the end the list, or the first KeyError), acc.arg the users
\* as the calls so far leave them.
RECURSIVE serialize_users(_, _, _)

serialize_users_next(users, i, acc, r) ==
    IF IsRaise(r) THEN [ret |-> r, arg |-> acc.arg]
    ELSE serialize_users(users, i + 1,
             [ret |-> Append(acc.ret, r),
              arg |-> [acc.arg EXCEPT
                          ![i] = after_serialize_user(users[i], r)]])

serialize_users(users, i, acc) ==
    IF i > Len(users) THEN acc
    ELSE serialize_users_next(users, i, acc, serialize_user(users[i]))

---------------------------------------------------------------------------
(* serialize_bug.  Each stage is an operator that takes the outcome of    *)
(* the stages before it; an outcome is [ret |-> the value or the          *)
(* exception raised, arg |-> the argument as the stage leaves it].        *)

approval_base_flag == "approval-mozilla-"
status_base_flag == "cf_status_"
tracking_base_flag == "cf_tracking_"

\* Variant: one message for both guards.
check_payload_one_error(payload) ==
    IF ~Truthy(payload)
       \/ ~Truthy(get(payload, "bug", None))
       \/ ~Truthy(get(payload, "analysis", None))
    THEN Raise("Exception", "Missing payload")
    ELSE None

\* The two guards at the head of serialize_bug: the exception raised, or
\* None when the payload passes both.
check_payload(payload) ==
    IF ~Truthy(payload) THEN Raise("Exception", "Missing payload")
    ELSE IF ~Truthy(get(payload, "bug", None))
            \/ ~Truthy(get(payload, "analysis", None))
         THEN Raise("Exception", "Missing Bug data or Analysis")
         ELSE None

\* Variant: text is preferred over html.
comment_html_text_first(comment) ==
    IF "text" \in DOMAIN comment THEN comment["text"]
    ELSE get(comment, "html", "No comment.")

\* The text of an uplift comment.
comment_html(comment) ==
    IF "html" \in DOMAIN comment THEN comment["html"]
    ELSE get(comment, "text", "No comment.")

\* The uplift dict, author being the outcome of serialize_user(author).
uplift_block(analysis, author) ==
    IF IsRaise(author) THEN [ret |-> author, arg |-> analysis]
    ELSE [ret |-> [id |-> analysis["uplift_comment"]["id"],
                   author |-> author,
                   comment |-> comment_html(analysis["uplift_comment"])],
          arg |-> SetItem(analysis, "uplift_author",
                     after_serialize_user(analysis["uplift_author"], author))]

\* "Build uplift": ret is uplift (None or the dict) or the KeyError raised.
build_uplift(analysis) ==
    IF ~(Truthy(get(analysis, "uplift_comment", None))
         /\ Truthy(get(analysis, "uplift_author", None)))
    THEN [ret |-> None, arg |-> analysis]
    ELSE IF "id" \notin DOMAIN analysis["uplift_comment"]
    THEN [ret |-> Raise("KeyError", "id"), arg |-> analysis]
    ELSE uplift_block(analysis, serialize_user(analysis["uplift_author"]))

\* The key of a flag's versions entry.
version_name(flag) ==
    replace(flag["name"], approval_base_flag, "", -1)
    \o " " \o flag["status"]

\* versions with an entry for the key name.
with_version(versions, name, flag) ==
    IF name \notin DOMAIN versions
    THEN SetItem(versions, name,
                 [name |-> flag["name"],
                  attachments |-> <<>>,
                  status |-> flag["status"]])
    ELSE versions

\* versions with the id appended to the entry name.
with_attachment(versions, name, id) ==
    SetItem(versions, name,
            SetItem(versions[name], "attachments",
                    Append(versions[name]["attachments"], id)))

\* Variant: the entry is created anew for every flag.
add_version_reset(versions, flag, a) ==
    SetItem(versions, version_name(flag),
            [name |-> flag["name"],
             attachments |-> <<str(a["id"])>>,
             status |-> flag["status"]])

\* The body of the inner loop for an approval flag of attachment a.
add_version(versions, flag, a) ==
    with_attachment(with_version(versions, version_name(flag), flag),
                    version_name(flag), str(a["id"]))

\* The two loops of "Build versions", from flag fi of attachment ai on:
\* the versions dict, or the KeyError a malformed attachment raises.
RECURSIVE versions_loop(_, _, _, _)
versions_loop(versions, attachments, ai, fi) ==
    IF ai > Len(attachments) THEN versions
    ELSE IF "flags" \notin DOMAIN attachments[ai]
    THEN Raise("KeyError", "flags")
    ELSE IF fi > Len(attachments[ai]["flags"])
    THEN versions_loop(versions, attachments, ai + 1, 1)
    ELSE IF "name" \notin DOMAIN attachments[ai]["flags"][fi]
    THEN Raise("KeyError", "name")
    ELSE IF ~startswith(attachments[ai]["flags"][fi]["name"],
                        approval_base_flag)
    THEN versions_loop(versions, attachments, ai, fi + 1)
    ELSE IF "status" \notin DOMAIN attachments[ai]["flags"][fi]
    THEN Raise("KeyError", "status")
    ELSE IF "id" \notin DOMAIN attachments[ai]
    THEN Raise("KeyError", "id")
    ELSE versions_loop(add_version(versions, attachments[ai]["flags"][fi],
                                   attachments[ai]),
                       attachments, ai, fi + 1)

build_versions(bug_data) ==
    versions_loop(<<>>, get(bug_data, "attachments", <<>>), 1, 1)

\* Variant: every occurrence of base is removed from the field name.
_filter_flags_all(bug_data, base) ==
    LET fields == {k \in DOMAIN bug_data : startswith(k, base \o "firefox")}
        keys == {replace(k, base, "", -1) : k \in fields}
    IN  [n \in keys |->
            bug_data[CHOOSE k \in fields : replace(k, base, "", -1) = n]]

\* The closure _filter_flags(base) over bug_data.  The new keys of two
\* selected fields differ (each is the field name less its first
\* Len(base) characters), so dict(out) has one item per selected field.
_filter_flags(bug_data, base) ==
    LET fields == {k \in DOMAIN bug_data : startswith(k, base \o "firefox")}
        keys == {replace(k, base, "", 1) : k \in fields}
    IN  [n \in keys |->
            bug_data[CHOOSE k \in fields : replace(k, base, "", 1) = n]]

\* analysis with analysis['users'][role] set.
with_user(analysis, role, value) ==
    SetItem(analysis, "users", SetItem(analysis["users"], role, value))

\* The three "Contributor structures" items of the returned dict, in the
\* order of the dict display: ret holds creator, assignee and reviewers,
\* or is the KeyError raised.
contributors_reviewers(analysis, creator, assignee, reviewers) ==
    [ret |-> IF IsRaise(reviewers.ret) THEN reviewers.ret
             ELSE [creator |-> creator,
                   assignee |-> assignee,
                   reviewers |-> reviewers.ret],
     arg |-> with_user(analysis, "reviewers", reviewers.arg)]

contributors_assignee(analysis, creator, assignee) ==
    IF IsRaise(assignee) THEN [ret |-> assignee, arg |-> analysis]
    ELSE IF "reviewers" \notin DOMAIN analysis["users"]
    THEN [ret |-> Raise("KeyError", "reviewers"),
          arg |-> with_user(analysis, "assignee",
                      after_serialize_user(analysis["users"]["assignee"],
                                           assignee))]
    ELSE contributors_reviewers(
             with_user(analysis, "assignee",
                 after_serialize_user(analysis["users"]["assignee"],
                                      assignee)),
             creator, assignee,
             serialize_users(analysis["users"]["reviewers"], 1,
                 [ret |-> <<>>, arg |-> analysis["users"]["reviewers"]]))

contributors_creator(analysis, creator) ==
    IF IsRaise(creator) THEN [ret |-> creator, arg |-> analysis]
    ELSE IF "assignee" \notin DOMAIN analysis["users"]
    THEN [ret |-> Raise("KeyError", "assignee"),
          arg |-> with_user(analysis, "creator",
                      after_serialize_user(analysis["users"]["creator"],
                                           creator))]
    ELSE contributors_assignee(
             with_user(analysis, "creator",
                 after_serialize_user(analysis["users"]["creator"], creator)),
             creator,
             serialize_user(analysis["users"]["assignee"]))

contributors(analysis) ==
    IF "users" \notin DOMAIN analysis
    THEN [ret |-> Raise("KeyError", "users"), arg |-> analysis]
    ELSE IF "creator" \notin DOMAIN analysis["users"]
    THEN [ret |-> Raise("KeyError", "creator"), arg |-> analysis]
    ELSE contributors_creator(analysis,
             serialize_user(analysis["users"]["creator"]))

\* bug with the analysis of its payload replaced.
WithAnalysis(bug, analysis) ==
    [bug EXCEPT !.payload_data = SetItem(@, "analysis", analysis)]

\* The returned dict, from the item 'creator' on; people is the outcome of
\* the contributor items.
bug_record(bug, uplift, versions, people) ==
    IF IsRaise(people.ret)
    THEN [ret |-> people.ret, arg |-> WithAnalysis(bug, people.arg)]
    ELSE IF "patches" \notin DOMAIN bug.payload_data["analysis"]
    THEN [ret |-> Raise("KeyError", "patches"),
          arg |-> WithAnalysis(bug, people.arg)]
    ELSE [ret |->
             [id |-> bug.id,
              bugzilla_id |-> bug.bugzilla_id,
              url |-> get(bug.payload_data, "url",
                          "https://bugzil.la/" \o str(bug.bugzilla_id)),
              summary |-> bug.payload_data["bug"]["summary"],
              keywords |-> bug.payload_data["bug"]["keywords"],
              flags_status |->
                  _filter_flags(bug.payload_data["bug"], status_base_flag),
              flags_tracking |->
                  _filter_flags(bug.payload_data["bug"], tracking_base_flag),
              creator |-> people.ret.creator,
              assignee |-> people.ret.assignee,
              reviewers |-> people.ret.reviewers,
              changes_size |->
                  get(bug.payload_data["analysis"], "changes_size", 0),
              uplift |-> uplift,
              patches |-> bug.payload_data["analysis"]["patches"],
              versions |-> versions],
          arg |-> WithAnalysis(bug, people.arg)]

\* The returned dict, up to the item 'keywords'; bug is the argument as
\* "Build uplift" leaves it.
bug_items(bug, uplift, versions) ==
    IF IsRaise(versions) THEN [ret |-> versions, arg |-> bug]
    ELSE IF "summary" \notin DOMAIN bug.payload_data["bug"]
    THEN [ret |-> Raise("KeyError", "summary"), arg |-> bug]
    ELSE IF "keywords" \notin DOMAIN bug.payload_data["bug"]
    THEN [ret |-> Raise("KeyError", "keywords"), arg |-> bug]
    ELSE bug_record(bug, uplift, versions,
                    contributors(bug.payload_data["analysis"]))

\* "Build versions" and what follows; uplift is the outcome of "Build
\* uplift".
bug_versions(bug, uplift) ==
    IF IsRaise(uplift.ret)
    THEN [ret |-> uplift.ret, arg |-> WithAnalysis(bug, uplift.arg)]
    ELSE bug_items(WithAnalysis(bug, uplift.arg), uplift.ret,
                   build_versions(bug.payload_data["bug"]))

\* One call serialize_bug(bug): ret is the dict returned or the exception
\* raised, arg is bug as the call leaves it.
serialize_bug_call(bug) ==
    IF IsRaise(check_payload(bug.payload_data))
    THEN [ret |-> check_payload(bug.payload_data), arg |-> bug]
    ELSE bug_versions(bug, build_uplift(bug.payload_data["analysis"]))

\* What serialize_bug(bug) returns, or the exception it raises.
serialize_bug(bug) == serialize_bug_call(bug).ret

\* bug as serialize_bug(bug) leaves it.
serialize_bug_arg(bug) == serialize_bug_call(bug).arg

---------------------------------------------------------------------------
(* serialize_analysis *)

\* The comprehension [serialize_bug(b) for b in analysis.bugs if b.payload]
\* from bug i on.  acc.ret is the list so far (in the end the list, or the
\* exception of the first call that raises), acc.arg the bugs as the calls
\* so far leave them, acc.calls the bugs serialize_bug was called with.
RECURSIVE serialize_bugs(_, _, _)

serialize_bugs_next(bugs, i, acc, call) ==
    IF IsRaise(call.ret)
    THEN [ret |-> call.ret,
          arg |-> [acc.arg EXCEPT ![i] = call.arg],
          calls |-> Append(acc.calls, bugs[i])]
    ELSE serialize_bugs(bugs, i + 1,
             [ret |-> Append(acc.ret, call.ret),
              arg |-> [acc.arg EXCEPT ![i] = call.arg],
              calls |-> Append(acc.calls, bugs[i])])

\* Variant: the comprehension without its condition.
serialize_bugs_unfiltered(bugs, i, acc) ==
    IF i > Len(bugs) THEN acc
    ELSE serialize_bugs_next(bugs, i, acc, serialize_bug_call(bugs[i]))

serialize_bugs(bugs, i, acc) ==
    IF i > Len(bugs) THEN acc
    ELSE IF ~Truthy(bugs[i].payload)
    THEN serialize_bugs(bugs, i + 1, acc)
    ELSE serialize_bugs_next(bugs, i, acc, serialize_bug_call(bugs[i]))

\* Variant: count is the number of bugs that have a payload.
analysis_header_payload_count(analysis) ==
    [id |-> analysis.id,
     name |-> analysis.name,
     count |-> Cardinality({i \in 1..Len(analysis.bugs) :
                               Truthy(analysis.bugs[i].payload)}),
     parameters |-> analysis.parameters]

\* The dict serialize_analysis starts from.
analysis_header(analysis) ==
    [id |-> analysis.id,
     name |-> analysis.name,
     count |-> Len(analysis.bugs),
     parameters |-> analysis.parameters]

\* The outcome of the branch "if full"; bugs is the outcome of the
\* comprehension.
analysis_full(analysis, bugs) ==
    [ret |-> IF IsRaise(bugs.ret) THEN bugs.ret
             ELSE SetItem(analysis_header(analysis), "bugs", bugs.ret),
     arg |-> [analysis EXCEPT !.bugs = bugs.arg],
     calls |-> bugs.calls]

\* One call serialize_analysis(analysis, full).
serialize_analysis_call(analysis, full) ==
    IF full
    THEN analysis_full(analysis,
             serialize_bugs(analysis.bugs, 1,
                 [ret |-> <<>>, arg |-> analysis.bugs, calls |-> <<>>]))
    ELSE [ret |-> SetItem(analysis_header(analysis), "bugs", <<>>),
          arg |-> analysis,
          calls |-> <<>>]

\* What serialize_analysis(analysis, full) returns, or the exception raised.
serialize_analysis(analysis, full) ==
    serialize_analysis_call(analysis, full).ret

\* analysis as serialize_analysis(analysis, full) leaves it.
serialize_analysis_arg(analysis, full) ==
    serialize_analysis_call(analysis, full).arg

---------------------------------------------------------------------------
(* The inputs.  Values of different Python types cannot share a TLA+ set  *)
(* under TLC, so mixed inputs are listed in sequences and drawn by index. *)

MaxAttachments == 2   \* attachments of a bug
MaxFlags == 3         \* flags of a bug, over all its attachments
MaxReviewers == 2     \* reviewers of a bug
MaxBugs == 2          \* bugs of an analysis

UserInputs ==
    << "foo@bar.com",
       "Foo@Bar.com ",
       "\tBAZ@qux.org\n",
       "",
       [name |-> "Foo Bar", email |-> "foo@bar.com"],
       [name |-> "Foo Bar", email |-> " FOO@bar.com", id |-> 7],
       [name |-> "foo@bar.com"],
       [name |-> "Baz@Qux.org ", real_name |-> "Baz"],
       [email |-> "baz@qux.org"],
       [name |-> "Foo Bar", email |-> "foo@bar.com", avatar |-> "stale"],
       [real_name |-> "Nobody"],
       <<>> >>

DefaultUsers ==
    [creator |-> "dev@mozilla.org",
     assignee |-> "dev@mozilla.org",
     reviewers |-> <<>>]

DefaultBugData == [summary |-> "A summary", keywords |-> <<"crash">>]

DefaultAnalysis == [users |-> DefaultUsers, patches |-> <<"patch">>]

\* A Bug entity.  The stored payload is set exactly when payload_data is
\* not None.
MkBug(id, payload_data) ==
    [id |-> id,
     bugzilla_id |-> 1000 + id,
     payload |-> IF IsNone(payload_data) THEN None ELSE "blob",
     payload_data |-> payload_data]

MkPayload(bug_data, analysis) == [bug |-> bug_data, analysis |-> analysis]

\* Payloads with and without their parts, and well-formed but for one
\* absent field.
PayloadInputs ==
    << None,
       <<>>,
       [url |-> "https://bugzilla.mozilla.org/1"],
       [bug |-> DefaultBugData],
       [analysis |-> DefaultAnalysis],
       [bug |-> <<>>, analysis |-> DefaultAnalysis],
       [bug |-> DefaultBugData, analysis |-> <<>>],
       [bug |-> None, analysis |-> DefaultAnalysis],
       [bug |-> DefaultBugData, analysis |-> None],
       MkPayload(DefaultBugData, DefaultAnalysis),
       [bug |-> DefaultBugData, analysis |-> DefaultAnalysis,
        url |-> "https://bugzilla.mozilla.org/1"],
       MkPayload(DefaultBugData,
                 [users |-> DefaultUsers, patches |-> <<>>,
                  changes_size |-> 12]),
       MkPayload([summary |-> "A summary", keywords |-> <<>>,
                  attachments |-> <<>>], DefaultAnalysis),
       MkPayload([keywords |-> <<>>],
                 [users |-> DefaultUsers, patches |-> <<>>,
                  uplift_comment |-> [id |-> 7, text |-> "plain"],
                  uplift_author |-> [name |-> "Foo Bar",
                                     email |-> "foo@bar.com"]]),
       MkPayload([summary |-> "A summary"], DefaultAnalysis),
       MkPayload(DefaultBugData, [patches |-> <<>>]),
       MkPayload(DefaultBugData, [users |-> DefaultUsers]),
       MkPayload(DefaultBugData,
                 [users |-> [creator |-> [name |-> "Foo Bar"]],
                  patches |-> <<>>]),
       MkPayload(DefaultBugData,
                 [users |-> [assignee |-> "dev@mozilla.org"],
                  patches |-> <<>>]),
       MkPayload(DefaultBugData,
                 [users |-> [creator |-> "dev@mozilla.org",
                             assignee |-> [name |-> "Foo Bar"]],
                  patches |-> <<>>]) >>

CommentInputs ==
    << None,
       <<>>,
       [id |-> 7],
       [id |-> 7, text |-> "plain"],
       [id |-> 7, html |-> "<p>rich</p>"],
       [id |-> 7, html |-> "<p>rich</p>", text |-> "plain"],
       [id |-> 7, html |-> "", text |-> "plain"],
       [text |-> "plain"] >>

AuthorInputs ==
    << None,
       "",
       "Foo@Bar.com ",
       [name |-> "Foo Bar", email |-> "foo@bar.com"],
       [name |-> "foo@bar.com"],
       [real_name |-> "Nobody"] >>

\* DefaultAnalysis with uplift_comment number c and uplift_author number a;
\* number 0 leaves the key out.
UpliftAnalysis(c, a) ==
    LET withComment ==
            IF c = 0 THEN DefaultAnalysis
            ELSE SetItem(DefaultAnalysis, "uplift_comment", CommentInputs[c])
    IN  IF a = 0 THEN withComment
        ELSE SetItem(withComment, "uplift_author", AuthorInputs[a])

FlagPool ==
    { [name |-> "approval-mozilla-beta", status |-> "+"],
      [name |-> "approval-mozilla-beta", status |-> "?"],
      [name |-> "review", status |-> "+"] }

\* The lists of at most n flags.
RECURSIVE FlagLists(_)
FlagLists(n) ==
    IF n = 0 THEN {<<>>}
    ELSE FlagLists(n - 1)
         \cup {Append(l, f) : l \in {x \in FlagLists(n - 1) : Len(x) = n - 1},
                              f \in FlagPool}

\* The flag lists of n attachments that hold at most budget flags together.
RECURSIVE FlagListsOf(_, _)
FlagListsOf(n, budget) ==
    IF n = 0 THEN {<<>>}
    ELSE UNION {{<<l>> \o rest : rest \in FlagListsOf(n - 1, budget - Len(l))}
                : l \in FlagLists(budget)}

\* Attachments 42, 43, ... with the given flag lists.
MkAttachments(flagLists) ==
    [i \in 1..Len(flagLists) |-> [id |-> 41 + i, flags |-> flagLists[i]]]

\* Attachment lists outside the pool: other channels, a flag name that
\* holds the prefix twice, a prefix that is not at the start, and
\* attachments and flags with an absent field.
AttachmentInputs ==
    << <<[id |-> 42,
          flags |-> <<[name |-> "approval-mozilla-beta", status |-> "+"],
                      [name |-> "approval-mozilla-aurora", status |-> "+"],
                      [name |-> "approval-mozilla-esr45", status |-> "-"]>>],
         [id |-> 43,
          flags |-> <<[name |-> "approval-mozilla-aurora", status |-> "+"],
                      [name |-> "approval-mozilla-beta", status |-> "+",
                       setter |-> "rm@mozilla.org"]>>]>>,
       <<[id |-> 42,
          flags |-> <<[name |-> "approval-mozilla-approval-mozilla-beta",
                       status |-> "+"]>>]>>,
       <<[id |-> 42,
          flags |-> <<[name |-> "approval-mozilla-beta", status |-> "+"]>>],
         [id |-> 43,
          flags |-> <<[name |-> "approval-mozilla-approval-mozilla-beta",
                       status |-> "+"]>>]>>,
       <<[id |-> 42,
          flags |-> <<[name |-> "in-approval-mozilla-beta", status |-> "+"],
                      [name |-> "approval-mozilla-", status |-> ""]>>]>>,
       <<[id |-> 42]>>,
       <<[flags |-> <<[name |-> "review", status |-> "+"]>>]>>,
       <<[flags |-> <<[name |-> "approval-mozilla-beta", status |-> "+"]>>]>>,
       <<[id |-> 42, flags |-> <<[status |-> "+"]>>]>>,
       <<[id |-> 42, flags |-> <<[name |-> "approval-mozilla-beta"]>>]>>,
       <<[id |-> 42, flags |-> <<[name |-> "review"]>>]>> >>

\* The custom fields a bug may carry, with their raw values.
FieldPool ==
    [cf_status_firefox52 |-> "affected",
     cf_status_firefox_esr45 |-> "fixed",
     cf_tracking_firefox52 |-> "+",
     cf_tracking_firefox_cf_tracking_ |-> "?",
     cf_status_thunderbird |-> "---",
     cf_status_firefo |-> "wontfix"]

\* DefaultBugData with the custom fields of the set fields.
FieldBugData(fields) ==
    [k \in DOMAIN DefaultBugData \cup fields |->
        IF k \in fields THEN FieldPool[k] ELSE DefaultBugData[k]]

ReviewerInputs ==
    << "rev@mozilla.org",
       [name |-> "Rev", email |-> "Rev@Mozilla.org"],
       [name |-> "rev@mozilla.org"],
       [real_name |-> "Nobody"] >>

\* The bugs of the analyses: without a payload, well-formed with bare and
\* with dict users, and with a payload that lacks a part or is empty.
AnalysisBugInputs ==
    << None,
       MkPayload(DefaultBugData, DefaultAnalysis),
       MkPayload(DefaultBugData,
                 [users |-> [creator |-> [name |-> "Foo Bar",
                                          email |-> "foo@bar.com"],
                             assignee |-> "dev@mozilla.org",
                             reviewers |-> <<>>],
                  patches |-> <<>>]),
       [bug |-> DefaultBugData],
       <<>> >>

MkAnalysis(payloads) ==
    [id |-> 1,
     name |-> "Dev",
     parameters |-> "bugzilla=...",
     bugs |-> [i \in 1..Len(payloads) |-> MkBug(i, payloads[i])]]

---------------------------------------------------------------------------
(* The state machine: an object is created, and then the serializers are  *)
(* called on it, any number of times.                                     *)

NoCall == [op |-> "none"]

InitUser ==
    /\ \E i \in 1..Len(UserInputs) : userObj = UserInputs[i]
    /\ bugObj = None
    /\ analysisObj = None

InitBug ==
    /\ userObj = None
    /\ analysisObj = None
    /\ \/ \E i \in 1..Len(PayloadInputs) : bugObj = MkBug(1, PayloadInputs[i])
       \/ \E c \in 0..Len(CommentInputs), a \in 0..Len(AuthorInputs) :
             bugObj = MkBug(2, MkPayload(DefaultBugData, UpliftAnalysis(c, a)))
       \/ \E n \in 0..MaxAttachments :
             \E flagLists \in FlagListsOf(n, MaxFlags) :
                bugObj = MkBug(3,
                    MkPayload(SetItem(DefaultBugData, "attachments",
                                      MkAttachments(flagLists)),
                              DefaultAnalysis))
       \/ \E i \in 1..Len(AttachmentInputs) :
             bugObj = MkBug(4,
                 MkPayload(SetItem(DefaultBugData, "attachments",
                                   AttachmentInputs[i]),
                           DefaultAnalysis))
       \/ \E fields \in SUBSET DOMAIN FieldPool :
             bugObj = MkBug(5, MkPayload(FieldBugData(fields), DefaultAnalysis))
       \/ \E i \in 1..Len(UserInputs), role \in {"creator", "assignee"} :
             bugObj = MkBug(6,
                 MkPayload(DefaultBugData,
                     SetItem(DefaultAnalysis, "users",
                             SetItem(DefaultUsers, role, UserInputs[i]))))
       \/ \E n \in 0..MaxReviewers :
             \E r \in [1..n -> 1..Len(ReviewerInputs)] :
                bugObj = MkBug(7,
                    MkPayload(DefaultBugData,
                        SetItem(DefaultAnalysis, "users",
                            SetItem(DefaultUsers, "reviewers",
                                    [i \in 1..n |-> ReviewerInputs[r[i]]]))))

InitAnalysis ==
    /\ userObj = None
    /\ bugObj = None
    /\ \E n \in 0..MaxBugs :
          \E k \in [1..n -> 1..Len(AnalysisBugInputs)] :
             analysisObj = MkAnalysis([i \in 1..n |-> AnalysisBugInputs[k[i]]])

Init ==
    /\ InitUser \/ InitBug \/ InitAnalysis
    /\ last = NoCall
    /\ called = <<>>

\* The call returns or raises r.
UserCallEnds(r) ==
    /\ last' = [op |-> "serialize_user", arg |-> userObj, ret |-> r]
    /\ userObj' = after_serialize_user(userObj, r)
    /\ called' = <<>>
    /\ UNCHANGED <<bugObj, analysisObj>>

\* serialize_user(userObj)
SerializeUser ==
    /\ ~IsNone(userObj)
    /\ UserCallEnds(serialize_user(userObj))

BugCallEnds(call) ==
    /\ last' = [op |-> "serialize_bug", arg |-> bugObj, ret |-> call.ret]
    /\ bugObj' = call.arg
    /\ called' = <<bugObj>>
    /\ UNCHANGED <<userObj, analysisObj>>

\* serialize_bug(bugObj)
SerializeBug ==
    /\ ~IsNone(bugObj)
    /\ BugCallEnds(serialize_bug_call(bugObj))

AnalysisCallEnds(full, call) ==
    /\ last' = [op |-> "serialize_analysis", arg |-> analysisObj,
                full |-> full, ret |-> call.ret]
    /\ analysisObj' = call.arg
    /\ called' = call.calls
    /\ UNCHANGED <<userObj, bugObj>>

\* serialize_analysis(analysisObj, full)
SerializeAnalysis(full) ==
    /\ ~IsNone(analysisObj)
    /\ AnalysisCallEnds(full, serialize_analysis_call(analysisObj, full))

Next ==
    \/ SerializeUser
    \/ SerializeBug
    \/ \E full \in BOOLEAN : SerializeAnalysis(full)

Spec == Init /\ [][Next]_vars

---------------------------------------------------------------------------
(* Properties.  Each is stated of the last call: last.arg is the argument *)
(* as the call found it, last.ret what it returned or raised, and the     *)
(* variable of the object holds the argument as the call left it.         *)

BugCalled == last.op = "serialize_bug"
BugReturned == BugCalled /\ ~IsRaise(last.ret)
UserCalled == last.op = "serialize_user"
UserReturned == UserCalled /\ ~IsRaise(last.ret)
AnalysisCalled == last.op = "serialize_analysis"

MissingPayload == Raise("Exception", "Missing payload")
MissingParts == Raise("Exception", "Missing Bug data or Analysis")

IsEmptyDict(v) == ToString(v) = "<<>>"

\* C1: serialize_bug raises, and returns nothing, when payload_data is
\* absent (None) or empty, and when a non-empty payload_data lacks the key
\* bug or the key analysis; the error of the first case differs from the
\* error of the second.
C1_MissingPayloadRaises ==
    BugCalled =>
        LET payload == last.arg.payload_data
        IN  /\ (IsNone(payload) \/ IsEmptyDict(payload))
                   => last.ret = MissingPayload
            /\ (/\ ~IsNone(payload)
                /\ ~IsEmptyDict(payload)
                /\ ("bug" \notin DOMAIN payload
                    \/ "analysis" \notin DOMAIN payload))
                   => last.ret = MissingParts
            /\ MissingPayload # MissingParts

\* A bug whose payload has the bug data but no analysis was refused with
\* the second error.
C1_Witness ==
    /\ BugCalled
    /\ IsDict(last.arg.payload_data)
    /\ DOMAIN last.arg.payload_data = {"bug"}
    /\ last.ret = MissingParts
    /\ bugObj = last.arg

\* s begins with prefix.
HasPrefix(s, prefix) ==
    Len(s) >= Len(prefix) /\ SubSeq(s, 1, Len(prefix)) = prefix

\* The approval flags of the attachments from flag fi of attachment ai on,
\* in the order of iteration, each with the stringified id of its
\* attachment.
RECURSIVE ApprovalFlags(_, _, _)
ApprovalFlags(atts, ai, fi) ==
    IF ai > Len(atts) THEN <<>>
    ELSE IF fi > Len(atts[ai]["flags"]) THEN ApprovalFlags(atts, ai + 1, 1)
    ELSE IF HasPrefix(atts[ai]["flags"][fi]["name"], "approval-mozilla-")
    THEN <<[name |-> atts[ai]["flags"][fi]["name"],
            status |-> atts[ai]["flags"][fi]["status"],
            id |-> ToString(atts[ai]["id"])]>>
         \o ApprovalFlags(atts, ai, fi + 1)
    ELSE ApprovalFlags(atts, ai, fi + 1)

\* The approval flags of the bug the last call was given.
LastApprovalFlags ==
    ApprovalFlags(get(last.arg.payload_data["bug"], "attachments", <<>>),
                  1, 1)

\* The ids of the flags named n with status s, in order.
GroupIds(occ, n, s) ==
    LET sel == SelectSeq(occ, LAMBDA o : o.name = n /\ o.status = s)
    IN  [i \in 1..Len(sel) |-> sel[i].id]

\* a can be had from b by leaving elements out.
RECURSIVE IsSubseq(_, _)
IsSubseq(a, b) ==
    IF Len(a) = 0 THEN TRUE
    ELSE IF Len(b) = 0 THEN FALSE
    ELSE IF Head(a) = Head(b) THEN IsSubseq(Tail(a), Tail(b))
    ELSE IsSubseq(a, Tail(b))

\* The number of attachment ids in the entries keys of versions.
RECURSIVE CountIds(_, _)
CountIds(versions, keys) ==
    IF keys = {} THEN 0
    ELSE LET k == CHOOSE x \in keys : TRUE
         IN  Len(versions[k]["attachments"]) + CountIds(versions, keys \ {k})

\* C2: in the versions of a returned bug, the attachments that carry an
\* approval flag of one name (channel) and one status are all in one
\* entry: an entry of that status lists the stringified id of each of
\* them, in the order of iteration.  No id is listed anywhere else (the
\* entries hold as many ids as there are approval flags), every entry
\* lists its ids in the order of iteration, and there are no more entries
\* than pairs of channel and status.
C2_VersionsMerged ==
    BugReturned =>
        LET occ == LastApprovalFlags
            versions == last.ret["versions"]
        IN  /\ \A i \in 1..Len(occ) :
                  \E k \in DOMAIN versions :
                     /\ versions[k]["status"] = occ[i].status
                     /\ IsSubseq(GroupIds(occ, occ[i].name, occ[i].status),
                                 versions[k]["attachments"])
            /\ CountIds(versions, DOMAIN versions) = Len(occ)
            /\ \A k \in DOMAIN versions :
                  IsSubseq(versions[k]["attachments"],
                           [i \in 1..Len(occ) |-> occ[i].id])
            /\ Cardinality(DOMAIN versions)
                  <= Cardinality({<<occ[i].name, occ[i].status>> :
                                     i \in 1..Len(occ)})

\* Attachments 42 and 43, both flagged approval-mozilla-beta "+", gave the
\* one entry "beta +" with the attachments "42" and "43".
C2_Witness ==
    /\ BugReturned
    /\ Len(LastApprovalFlags) = 2
    /\ DOMAIN last.ret["versions"] = {"beta +"}
    /\ last.ret["versions"]["beta +"] =
          [name |-> "approval-mozilla-beta",
           status |-> "+",
           attachments |-> <<"42", "43">>]

\* The uplift block the claim describes for the comment and the author.
UpliftBlock(comment, author) ==
    [id |-> comment["id"],
     author |-> serialize_user(author),
     comment |-> IF "html" \in DOMAIN comment THEN comment["html"]
                 ELSE IF "text" \in DOMAIN comment THEN comment["text"]
                 ELSE "No comment."]

\* C3, as stated: uplift is None unless the analysis has both keys
\* uplift_comment and uplift_author, and when it has both, uplift is the
\* block of the comment's id, the normalized author and the comment's
\* html, else text, else "No comment.".  It does not hold: a key that is
\* present with a None or empty value counts as absent.
C3_UpliftWhenPresent ==
    BugReturned =>
        LET analysis == last.arg.payload_data["analysis"]
        IN  IF "uplift_comment" \in DOMAIN analysis
               /\ "uplift_author" \in DOMAIN analysis
            THEN /\ ~IsNone(last.ret["uplift"])
                 /\ last.ret["uplift"] =
                       UpliftBlock(analysis["uplift_comment"],
                                   analysis["uplift_author"])
            ELSE IsNone(last.ret["uplift"])

\* C3, amended: uplift is None unless the analysis has both uplift_comment
\* and uplift_author with values that are neither None nor empty, and
\* when it has, uplift is the block of the comment's id, the normalized
\* author and the comment's html, else text, else "No comment.".
C3_UpliftWhenTruthy ==
    BugReturned =>
        LET analysis == last.arg.payload_data["analysis"]
        IN  IF Truthy(get(analysis, "uplift_comment", None))
               /\ Truthy(get(analysis, "uplift_author", None))
            THEN last.ret["uplift"] =
                    UpliftBlock(analysis["uplift_comment"],
                                analysis["uplift_author"])
            ELSE IsNone(last.ret["uplift"])

\* A comment with a text and no html, and a bare string as the author:
\* the block holds the text and the author normalized.
C3_Witness ==
    /\ BugReturned
    /\ "uplift_comment" \in DOMAIN last.arg.payload_data["analysis"]
    /\ "uplift_author" \in DOMAIN last.arg.payload_data["analysis"]
    /\ ~IsNone(last.ret["uplift"])
    /\ last.ret["uplift"]["comment"] = "plain"
    /\ last.ret["uplift"]["id"] = 7
    /\ IsStr(last.arg.payload_data["analysis"]["uplift_author"])
    /\ last.ret["uplift"]["author"]["email"] = "Foo@Bar.com "

HasPayload(b) == Truthy(b.payload)

\* C4: with full, serialize_bug is called on no bug without a payload, so
\* no such bug makes the call fail: an analysis of such bugs only returns
\* no bugs, an error raised is the error of serialize_bug on a bug that has
\* a payload, and otherwise bugs is the list of the results of
\* serialize_bug on the bugs that have a payload, in the order of the
\* analysis.
C4_FullSkipsBugsWithoutPayload ==
    (AnalysisCalled /\ last.full) =>
        LET withPayload == SelectSeq(last.arg.bugs, HasPayload)
        IN  /\ \A i \in 1..Len(called) : HasPayload(called[i])
            /\ Len(withPayload) = 0 => ~IsRaise(last.ret)
            /\ IsRaise(last.ret) =>
                  /\ Len(called) \in 1..Len(withPayload)
                  /\ called = SubSeq(withPayload, 1, Len(called))
                  /\ last.ret = serialize_bug(called[Len(called)])
            /\ ~IsRaise(last.ret) =>
                  /\ called = withPayload
                  /\ last.ret["bugs"] =
                        [i \in 1..Len(withPayload) |->
                            serialize_bug(withPayload[i])]

\* An analysis of a bug without a payload and, after it, a bug with one:
\* the first was skipped and the second serialized.
C4_Witness ==
    /\ AnalysisCalled
    /\ last.full
    /\ ~IsRaise(last.ret)
    /\ Len(last.arg.bugs) = 2
    /\ ~HasPayload(last.arg.bugs[1])
    /\ Len(last.ret["bugs"]) = 1
    /\ last.ret["bugs"][1]["id"] = last.arg.bugs[2].id
    /\ called = <<last.arg.bugs[2]>>

\* C5: without full, the call returns (it raises nothing), bugs is the
\* empty list, serialize_bug is called on no bug and count is the number
\* of bugs of the analysis; with full, a call that returns gives the same
\* count, the count of the call without full.
C5_CountRegardlessOfFull ==
    AnalysisCalled =>
        /\ ~last.full =>
              /\ ~IsRaise(last.ret)
              /\ last.ret["bugs"] = <<>>
              /\ called = <<>>
              /\ last.ret["count"] = Len(last.arg.bugs)
        /\ (last.full /\ ~IsRaise(last.ret)) =>
              /\ last.ret["count"] = Len(last.arg.bugs)
              /\ last.ret["count"] = serialize_analysis(last.arg, FALSE)["count"]

\* An analysis of two bugs, one of them without a payload, serialized
\* without full: count is 2 and bugs is empty.
C5_Witness ==
    /\ AnalysisCalled
    /\ ~last.full
    /\ Len(last.arg.bugs) = 2
    /\ \E i \in 1..2 : ~HasPayload(last.arg.bugs[i])
    /\ \E i \in 1..2 : HasPayload(last.arg.bugs[i])
    /\ last.ret["count"] = 2
    /\ last.ret["bugs"] = <<>>

\* C6: the email of the output is the name of a dict input without email,
\* the email of a dict input with one, and the input itself for a bare
\* string, whose real_name is the input too; every output has email and
\* avatar.  (There is no output only for a dict with neither email nor
\* name.)
C6_EmailFallback ==
    UserCalled =>
        /\ IsRaise(last.ret) =>
              /\ IsDict(last.arg)
              /\ "email" \notin DOMAIN last.arg
              /\ "name" \notin DOMAIN last.arg
        /\ ~IsRaise(last.ret) =>
              /\ {"email", "avatar"} \subseteq DOMAIN last.ret
              /\ IF ~IsDict(last.arg)
                 THEN /\ last.ret["email"] = last.arg
                      /\ last.ret["real_name"] = last.arg
                 ELSE IF "email" \in DOMAIN last.arg
                 THEN last.ret["email"] = last.arg["email"]
                 ELSE last.ret["email"] = last.arg["name"]

\* A dict with a name and a real_name, and no email: the email of the
\* output is the name.
C6_Witness ==
    /\ UserReturned
    /\ IsDict(last.arg)
    /\ "email" \notin DOMAIN last.arg
    /\ "real_name" \in DOMAIN last.arg
    /\ last.ret["email"] = "Baz@Qux.org "
    /\ "avatar" \in DOMAIN last.ret

\* The email serialize_user takes from a user.
EmailOf(user) ==
    IF ~IsDict(user) THEN user
    ELSE IF "email" \in DOMAIN user THEN user["email"]
    ELSE user["name"]

HasEmail(user) ==
    ~IsDict(user) \/ "email" \in DOMAIN user \/ "name" \in DOMAIN user

\* C7: the avatar depends on the trimmed, lower-cased email only: every
\* user whose email, trimmed and lower-cased, is that of the user just
\* serialized gets the avatar that user got, dict or bare string, whatever
\* its other fields; and the avatar of foo@bar.com is the gravatar URL of
\* its MD5 digest.
C7_AvatarOfNormalizedEmail ==
    UserReturned =>
        /\ \A i \in 1..Len(UserInputs) :
              (/\ HasEmail(UserInputs[i])
               /\ lower(strip(EmailOf(UserInputs[i])))
                     = lower(strip(EmailOf(last.arg))))
                 => serialize_user(UserInputs[i])["avatar"]
                       = last.ret["avatar"]
        /\ lower(strip(EmailOf(last.arg))) = "foo@bar.com" =>
              last.ret["avatar"] =
                 "https://www.gravatar.com/avatar/"
                 \o "f3ada405ce890b6f8204094deb12d8a8"

\* The bare string "Foo@Bar.com " got the avatar of the dict whose email
\* is "foo@bar.com".
C7_Witness ==
    /\ UserReturned
    /\ IsStr(last.arg)
    /\ last.arg = "Foo@Bar.com "
    /\ last.ret["avatar"] =
          serialize_user([name |-> "Foo Bar", email |-> "foo@bar.com"])["avatar"]
    /\ last.ret["avatar"] =
          "https://www.gravatar.com/avatar/f3ada405ce890b6f8204094deb12d8a8"

\* The mapping flags has one entry for each field of bug_data whose name
\* starts with base \o "firefox": the field name less its first Len(base)
\* characters, mapped to the value of the field.
FlagsOf(bug_data, base, flags) ==
    LET fields == {k \in DOMAIN bug_data : HasPrefix(k, base \o "firefox")}
    IN  /\ DOMAIN flags = {SubSeq(k, Len(base) + 1, Len(k)) : k \in fields}
        /\ Cardinality(DOMAIN flags) = Cardinality(fields)
        /\ \A k \in fields :
              flags[SubSeq(k, Len(base) + 1, Len(k))] = bug_data[k]

\* C8: flags_status has exactly one entry for each field of the raw bug
\* whose name starts with cf_status_firefox, keyed by the name without the
\* leading cf_status_ and mapped to the raw value; flags_tracking is the
\* same for cf_tracking_firefox and cf_tracking_; so each is determined by
\* its own fields alone.
C8_CustomFlags ==
    BugReturned =>
        /\ FlagsOf(last.arg.payload_data["bug"], "cf_status_",
                   last.ret["flags_status"])
        /\ FlagsOf(last.arg.payload_data["bug"], "cf_tracking_",
                   last.ret["flags_tracking"])

\* A bug with status fields of firefox and of others and a tracking field
\* whose name holds cf_tracking_ twice.
C8_Witness ==
    /\ BugReturned
    /\ {"cf_status_firefox52", "cf_status_thunderbird", "cf_status_firefo",
        "cf_tracking_firefox_cf_tracking_"}
          \subseteq DOMAIN last.arg.payload_data["bug"]
    /\ "cf_tracking_firefox52" \notin DOMAIN last.arg.payload_data["bug"]
    /\ DOMAIN last.ret["flags_status"] \subseteq {"firefox52", "firefox_esr45"}
    /\ last.ret["flags_status"]["firefox52"] = "affected"
    /\ last.ret["flags_tracking"] = [firefox_cf_tracking_ |-> "?"]

\* C9, as stated: the key of the entry of an approval flag is the rest of
\* the flag name after the prefix approval-mozilla-, a space and the
\* status, the entry holds the flag's name and status, and the entries hold
\* one id for each approval flag.  It does not hold of the code, which
\* removes every occurrence of the prefix from the name.
C9_KeyIsSuffixAndStatus ==
    BugReturned =>
        LET occ == LastApprovalFlags
            versions == last.ret["versions"]
        IN  /\ \A i \in 1..Len(occ) :
                  LET key == SubSeq(occ[i].name, 18, Len(occ[i].name))
                             \o " " \o occ[i].status
                  IN  /\ key \in DOMAIN versions
                      /\ versions[key]["name"] = occ[i].name
                      /\ versions[key]["status"] = occ[i].status
            /\ CountIds(versions, DOMAIN versions) = Len(occ)

\* pre and post are a user before and after a call: a dict may have gained
\* avatar and email and keeps every other key with its value; a bare
\* string stays.
UserFrame(pre, post) ==
    IF IsDict(pre)
    THEN /\ IsDict(post)
         /\ DOMAIN pre \subseteq DOMAIN post
         /\ DOMAIN post \subseteq DOMAIN pre \cup {"avatar", "email"}
         /\ \A k \in DOMAIN pre \ {"avatar"} : post[k] = pre[k]
    ELSE Kind(post) = Kind(pre) /\ post = pre

\* The same for a dict d with a user under the key k.
UserFrameAt(pre, post, k) ==
    (k \in DOMAIN pre) => UserFrame(pre[k], post[k])

UsersFrame(pre, post) ==
    /\ DOMAIN post = DOMAIN pre
    /\ UserFrameAt(pre, post, "creator")
    /\ UserFrameAt(pre, post, "assignee")
    /\ "reviewers" \in DOMAIN pre =>
          /\ Len(post["reviewers"]) = Len(pre["reviewers"])
          /\ \A i \in 1..Len(pre["reviewers"]) :
                UserFrame(pre["reviewers"][i], post["reviewers"][i])

AnalysisDataFrame(pre, post) ==
    /\ DOMAIN post = DOMAIN pre
    /\ \A k \in DOMAIN pre \ {"users", "uplift_author"} : post[k] = pre[k]
    /\ UserFrameAt(pre, post, "uplift_author")
    /\ "users" \in DOMAIN pre => UsersFrame(pre["users"], post["users"])

\* A payload with both parts, as the guards of serialize_bug take it.
HasParts(payload) ==
    /\ Truthy(payload)
    /\ Truthy(get(payload, "bug", None))
    /\ Truthy(get(payload, "analysis", None))

\* pre and post are a bug before and after a call: only the users of its
\* analysis may differ.
BugFrame(pre, post) ==
    IF ~HasParts(pre.payload_data) THEN post = pre
    ELSE /\ post.id = pre.id
         /\ post.bugzilla_id = pre.bugzilla_id
         /\ post.payload = pre.payload
         /\ DOMAIN post.payload_data = DOMAIN pre.payload_data
         /\ \A k \in DOMAIN pre.payload_data \ {"analysis"} :
               post.payload_data[k] = pre.payload_data[k]
         /\ AnalysisDataFrame(pre.payload_data["analysis"],
                              post.payload_data["analysis"])

\* What the three serializers may change of their input: serialize_user a
\* dict user, which on return has avatar and email; serialize_bug the
\* users of the analysis of the bug; serialize_analysis with full the
\* same, of its bugs that have a payload, and without full nothing.
InputFrame ==
    /\ UserCalled =>
          /\ UserFrame(last.arg, userObj)
          /\ (IsDict(last.arg) /\ ~IsRaise(last.ret)) =>
                /\ {"avatar", "email"} \subseteq DOMAIN userObj
                /\ userObj = last.ret
    /\ BugCalled => BugFrame(last.arg, bugObj)
    /\ AnalysisCalled =>
          /\ analysisObj.id = last.arg.id
          /\ analysisObj.name = last.arg.name
          /\ analysisObj.parameters = last.arg.parameters
          /\ Len(analysisObj.bugs) = Len(last.arg.bugs)
          /\ \A i \in 1..Len(last.arg.bugs) :
                IF last.full /\ HasPayload(last.arg.bugs[i])
                THEN BugFrame(last.arg.bugs[i], analysisObj.bugs[i])
                ELSE analysisObj.bugs[i] = last.arg.bugs[i]

\* C10, as stated: the frame above, and a call that raises leaves its
\* whole input as it was.  The second part does not hold: serialize_bug
\* normalizes the uplift author before it faults on an absent field, and
\* serialize_analysis serializes the bugs before the one that raises.
C10_RaiseLeavesInputUnchanged ==
    /\ InputFrame
    /\ (UserCalled /\ IsRaise(last.ret)) => userObj = last.arg
    /\ (BugCalled /\ IsRaise(last.ret)) => bugObj = last.arg
    /\ (AnalysisCalled /\ IsRaise(last.ret)) => analysisObj = last.arg

\* C10, amended: the frame above, and a call of serialize_bug that raises
\* the missing-payload or the missing-substructure error leaves its whole
\* input as it was.
C10_GuardErrorLeavesInputUnchanged ==
    /\ InputFrame
    /\ (BugCalled /\ last.ret \in {MissingPayload, MissingParts}) =>
          bugObj = last.arg

\* A bug whose reviewers are a bare string and a dict without email: the
\* string stayed, the dict gained email and avatar, and the rest of the
\* bug is as it was.
C10_Witness ==
    /\ BugReturned
    /\ last.arg.id = 7
    /\ Len(last.arg.payload_data["analysis"]["users"]["reviewers"]) = 2
    /\ IsStr(last.arg.payload_data["analysis"]["users"]["reviewers"][1])
    /\ IsDict(last.arg.payload_data["analysis"]["users"]["reviewers"][2])
    /\ DOMAIN last.arg.payload_data["analysis"]["users"]["reviewers"][2]
          = {"name"}
    /\ DOMAIN bugObj.payload_data["analysis"]["users"]["reviewers"][2]
          = {"name", "email", "avatar"}
    /\ bugObj.payload_data["analysis"]["users"]["reviewers"][1]
          = last.arg.payload_data["analysis"]["users"]["reviewers"][1]
    /\ bugObj.payload_data["bug"] = last.arg.payload_data["bug"]
    /\ bugObj # last.arg

=============================================================================
